---- MODULE Spec2Model ----
(***************************************************************************)
(* Model of the branding generator (tools/branding/generate.py), its       *)
(* derivation helpers (tools/branding/branding.py) and the lock updater    *)
(* (tools/branding/update_lock.py).                                        *)
(*                                                                         *)
(* Text is modelled as a sequence of one-character strings, so that        *)
(* trimming, splitting, quoting and pattern matching are computed the way  *)
(* the Python code computes them.  A file is a record [exists, text].      *)
(* Permission bits and directory creation are not modelled.                *)
(***************************************************************************)
EXTENDS Integers, Sequences, FiniteSets, TLC

(***************************************************************************)
(* Python string primitives used by the code.                              *)
(***************************************************************************)
WHITESPACE == {" ", "\n", "\t"}

RECURSIVE str_lstrip(_)
str_lstrip(s) ==
  IF s # <<>> /\ Head(s) \in WHITESPACE THEN str_lstrip(Tail(s)) ELSE s

RECURSIVE str_rstrip(_)
str_rstrip(s) ==
  IF s # <<>> /\ s[Len(s)] \in WHITESPACE
    THEN str_rstrip(SubSeq(s, 1, Len(s) - 1))
    ELSE s

\* value.strip()
str_strip(s) == str_rstrip(str_lstrip(s))

RECURSIVE str_lstrip_char(_, _)
str_lstrip_char(s, c) ==
  IF s # <<>> /\ Head(s) = c THEN str_lstrip_char(Tail(s), c) ELSE s

RECURSIVE str_rstrip_char(_, _)
str_rstrip_char(s, c) ==
  IF s # <<>> /\ s[Len(s)] = c
    THEN str_rstrip_char(SubSeq(s, 1, Len(s) - 1), c)
    ELSE s

\* value.strip("-"), value.strip("_")
str_strip_char(s, c) == str_rstrip_char(str_lstrip_char(s, c), c)

\* value.startswith(prefix)
str_startswith(s, p) == Len(s) >= Len(p) /\ SubSeq(s, 1, Len(p)) = p

\* value.find(c, from): first index >= from holding c, 0 when there is none
\* (indices are 1-based here).
RECURSIVE str_find(_, _, _)
str_find(s, c, from) ==
  IF from > Len(s) THEN 0
  ELSE IF s[from] = c THEN from
  ELSE str_find(s, c, from + 1)

\* c in value
str_contains(s, c) == str_find(s, c, 1) # 0

\* value.split(c, 1)[0] and value.split(c, 1)[1]
str_split_head(s, c) ==
  LET i == str_find(s, c, 1) IN IF i = 0 THEN s ELSE SubSeq(s, 1, i - 1)

str_split_tail(s, c) ==
  LET i == str_find(s, c, 1) IN IF i = 0 THEN <<>> ELSE SubSeq(s, i + 1, Len(s))

\* text.splitlines()
RECURSIVE str_splitlines(_)
str_splitlines(t) ==
  IF t = <<>> THEN <<>>
  ELSE LET i == str_find(t, "\n", 1) IN
       IF i = 0 THEN <<t>>
       ELSE <<SubSeq(t, 1, i - 1)>> \o str_splitlines(SubSeq(t, i + 1, Len(t)))

\* "\n".join(lines)
RECURSIVE str_join_lines(_)
str_join_lines(lines) ==
  IF lines = <<>> THEN <<>>
  ELSE IF Len(lines) = 1 THEN lines[1]
  ELSE lines[1] \o <<"\n">> \o str_join_lines(Tail(lines))

\* n copies of the character c
RECURSIVE Rep(_, _)
Rep(c, n) == IF n <= 0 THEN <<>> ELSE <<c>> \o Rep(c, n - 1)

(***************************************************************************)
(* Results of operations that may raise BrandingError, files, dicts.       *)
(***************************************************************************)
Ok(v) == [st |-> "ok", val |-> v, err |-> ""]
NoneVal == [st |-> "none", val |-> <<>>, err |-> ""]
Raise(msg) == [st |-> "raise", val |-> <<>>, err |-> msg]

NoFile == [exists |-> FALSE, text |-> <<>>]
File(t) == [exists |-> TRUE, text |-> t]

\* dict[key] = value, dict.get(key) (<<>> standing for None: every reader of
\* .get() below only tests the result for truthiness or compares it with a
\* non-empty string)
DictSet(d, k, v) == [x \in (DOMAIN d) \cup {k} |-> IF x = k THEN v ELSE d[x]]
DictGet(d, k) == IF k \in DOMAIN d THEN d[k] ELSE <<>>
EmptyDict == [x \in {} |-> x]
\* not d
DictEmpty(d) == DOMAIN d = {}

(***************************************************************************)
(* Branding config file: load_brand_from_config and its helpers.           *)
(***************************************************************************)
QUOTES == {"'", "\""}

_strip_inline_comment(value) ==
  IF value = <<>> THEN value
  ELSE IF Head(value) \in QUOTES
    THEN LET end == str_find(value, Head(value), 2) IN
         IF end # 0 THEN SubSeq(value, 1, end) ELSE value
    ELSE str_strip(str_split_head(value, "#"))

_strip_quotes(value) ==
  IF Len(value) < 2 THEN value
  ELSE IF value[1] = value[Len(value)] /\ value[1] \in QUOTES
    THEN str_strip(SubSeq(value, 2, Len(value) - 1))
    ELSE value

s_brand_colon == <<"b","r","a","n","d",":">>

RECURSIVE brand_from_lines(_)
brand_from_lines(raw) ==
  IF raw = <<>> THEN Raise("config/branding.yaml missing 'brand' value")
  ELSE LET stripped == str_strip(Head(raw)) IN
       IF stripped = <<>> \/ str_startswith(stripped, <<"#">>)
         THEN brand_from_lines(Tail(raw))
       ELSE IF ~str_startswith(stripped, s_brand_colon)
         THEN brand_from_lines(Tail(raw))
       ELSE LET value == _strip_quotes(_strip_inline_comment(
                           str_strip(str_split_tail(stripped, ":")))) IN
            IF value # <<>> THEN Ok(value)
            ELSE Raise("config/branding.yaml missing 'brand' value")

load_brand_from_config(file) ==
  IF ~file.exists THEN NoneVal ELSE brand_from_lines(str_splitlines(file.text))

\* write_brand_config: the four-line file it writes
write_brand_config(brand) ==
  File(str_join_lines(<<
    <<"#"," ","W","h","e","r","e",":"," ","c","o","n","f","i","g","/","b","r","a","n","d","i","n","g",".","y","a","m","l">>,
    <<"#"," ","W","h","a","t",":"," ","B","r","a","n","d","i","n","g"," ","i","d","e","n","t","i","f","i","e","r"," ","f","o","r"," ","g","e","n","e","r","a","t","o","r"," ","d","e","f","a","u","l","t","s",".">>,
    <<"#"," ","W","h","y",":"," ","K","e","e","p"," ","b","r","a","n","d","i","n","g"," ","r","e","p","r","o","d","u","c","i","b","l","e"," ","a","c","r","o","s","s"," ","c","l","o","n","e","s",".">>,
    <<"b","r","a","n","d",":"," ">> \o brand >>) \o <<"\n">>)

(***************************************************************************)
(* resolve_brand.  The operator returns the outcome together with the      *)
(* config file the call leaves on disk.                                    *)
(***************************************************************************)
\* The behaviour tests/test_branding.py:48-59 expects (config written when
\* missing, updated on mismatch); used as a mutant of resolve_brand.
resolve_brand_autowrite(brand, config, check) ==
  LET config_brand == load_brand_from_config(config) IN
  IF config_brand.st = "raise" THEN [res |-> config_brand, config |-> config]
  ELSE IF brand.given /\ str_strip(brand.val) # <<>>
    THEN LET brand_value == str_strip(brand.val) IN
         IF config_brand.val # <<>> /\ config_brand.val # brand_value
           THEN IF check
                  THEN [res |-> Raise("brand mismatch for --check"),
                        config |-> config]
                  ELSE [res |-> Ok(brand_value),
                        config |-> write_brand_config(brand_value)]
         ELSE IF config_brand.val = <<>>
           THEN IF check
                  THEN [res |-> Ok(brand_value), config |-> config]
                  ELSE [res |-> Ok(brand_value),
                        config |-> write_brand_config(brand_value)]
         ELSE [res |-> Ok(brand_value), config |-> config]
  ELSE IF config_brand.val # <<>>
    THEN [res |-> Ok(config_brand.val), config |-> config]
  ELSE [res |-> Raise("brand is required"), config |-> config]

resolve_brand(brand, config, check) ==
  LET config_brand == load_brand_from_config(config) IN
  IF config_brand.st = "raise"
    THEN [res |-> config_brand, config |-> config]
  ELSE IF brand.given /\ str_strip(brand.val) # <<>>
    THEN LET brand_value == str_strip(brand.val) IN
         IF config_brand.val # <<>> /\ config_brand.val # brand_value
           THEN IF check
                  THEN [res |-> Raise("brand mismatch for --check"),
                        config |-> config]
                  ELSE [res |-> Ok(brand_value), config |-> config]
         ELSE [res |-> Ok(brand_value), config |-> config]
  ELSE IF config_brand.val # <<>>
    THEN [res |-> Ok(config_brand.val), config |-> config]
  ELSE [res |-> Raise("brand is required"), config |-> config]

(***************************************************************************)
(* Lock file: load_lock_data and validate_tool_commit.                     *)
(***************************************************************************)
\* while stack and indent < len(stack) * 2: stack.pop(); prefixes.pop()
\* (stack and prefixes always have the same length; prefixes stands for both)
RECURSIVE lock_pop(_, _)
lock_pop(prefixes, indent) ==
  IF prefixes # <<>> /\ indent < Len(prefixes) * 2
    THEN lock_pop(SubSeq(prefixes, 1, Len(prefixes) - 1), indent)
    ELSE prefixes

RECURSIVE lock_lines(_, _, _)
lock_lines(lines, data, prefixes) ==
  IF lines = <<>> THEN data
  ELSE
    LET line == Head(lines)
        stripped == str_strip(line)
    IN
    IF stripped = <<>> \/ str_startswith(stripped, <<"#">>)
      THEN lock_lines(Tail(lines), data, prefixes)
    ELSE
      LET indent == Len(line) - Len(str_lstrip_char(line, " "))
          popped == lock_pop(prefixes, indent)
      IN
      IF ~str_contains(stripped, ":")
        THEN lock_lines(Tail(lines), data, popped)
      ELSE
        LET key == str_strip(str_split_head(stripped, ":"))
            raw_value == str_strip(str_split_tail(stripped, ":"))
            prefix == IF popped # <<>> THEN popped[Len(popped)] ELSE <<>>
        IN
        IF raw_value = <<>>
          THEN lock_lines(Tail(lines), data,
                          Append(popped, prefix \o key \o <<".">>))
          ELSE lock_lines(Tail(lines),
                          DictSet(data, prefix \o key, _strip_quotes(raw_value)),
                          popped)

load_lock_data(file) ==
  IF ~file.exists THEN Raise("branding.lock not found in tool repo")
  ELSE Ok(lock_lines(str_splitlines(file.text), EmptyDict, <<>>))

k_tool_commit == <<"t","o","o","l",".","c","o","m","m","i","t">>

\* git_rev_parse: head is the outcome of `git rev-parse HEAD` in the tool
\* repository, Ok(stdout) or a failure of the command.
git_rev_parse(head) ==
  IF head.st = "raise" THEN Raise("git rev-parse failed")
  ELSE Ok(str_strip(head.val))

\* warn: a WARNING line was printed to stderr
validate_tool_commit(lock_data, head, skip) ==
  LET expected == DictGet(lock_data, k_tool_commit) IN
  IF expected = <<>>
    THEN [res |-> Raise("branding.lock missing tool.commit"), warn |-> FALSE]
  ELSE LET current == git_rev_parse(head) IN
       IF current.st = "raise" THEN [res |-> current, warn |-> FALSE]
       ELSE IF current.val # expected
         THEN IF skip
                THEN [res |-> Ok(<<>>), warn |-> TRUE]
                ELSE [res |-> Raise("tool repo commit mismatch"), warn |-> FALSE]
       ELSE [res |-> Ok(<<>>), warn |-> FALSE]

(***************************************************************************)
(* Info file: load_esb_info, normalize_esb_base, has_esb_base,             *)
(* write_esb_info, ensure_esb_info.                                        *)
(***************************************************************************)
k_ESB_BASE_COMMIT == <<"E","S","B","_","B","A","S","E","_","C","O","M","M","I","T">>
k_ESB_BASE_TAG == <<"E","S","B","_","B","A","S","E","_","T","A","G">>
s_esb == <<"e","s","b">>

RECURSIVE info_lines(_, _)
info_lines(lines, data) ==
  IF lines = <<>> THEN data
  ELSE
    LET stripped == str_strip(Head(lines)) IN
    IF stripped = <<>> \/ str_startswith(stripped, <<"#">>)
       \/ ~str_contains(stripped, "=")
      THEN info_lines(Tail(lines), data)
    ELSE
      LET key == str_strip(str_split_head(stripped, "="))
          value == str_strip(str_split_tail(stripped, "="))
      IN
      IF key # <<>> /\ value # <<>>
        THEN info_lines(Tail(lines), DictSet(data, key, value))
        ELSE info_lines(Tail(lines), data)

load_esb_info(file) ==
  IF ~file.exists THEN EmptyDict
  ELSE info_lines(str_splitlines(file.text), EmptyDict)

HEXDIGITS == {"0","1","2","3","4","5","6","7","8","9",
              "a","b","c","d","e","f","A","B","C","D","E","F"}
HexMin == 7
HexMax == 40

\* The pattern with its lower length bound off by one; used as a mutant.
is_hex_commit_off_by_one(value) ==
  /\ Len(value) > HexMin
  /\ Len(value) <= HexMax
  /\ \A i \in 1..Len(value) : value[i] \in HEXDIGITS

\* re.fullmatch(r"[0-9a-fA-F]{7,40}", value)
is_hex_commit(value) ==
  /\ Len(value) >= HexMin
  /\ Len(value) <= HexMax
  /\ \A i \in 1..Len(value) : value[i] \in HEXDIGITS

normalize_esb_base(value) ==
  LET v == str_strip(value) IN
  IF is_hex_commit(v) THEN [key |-> k_ESB_BASE_COMMIT, value |-> v]
  ELSE [key |-> k_ESB_BASE_TAG, value |-> v]

has_esb_base(info) ==
  DictGet(info, k_ESB_BASE_COMMIT) # <<>> \/ DictGet(info, k_ESB_BASE_TAG) # <<>>

write_esb_info(key, value) ==
  File(str_join_lines(<<
    <<"#"," ","A","u","t","o","-","g","e","n","e","r","a","t","e","d"," ","b","y"," ","b","r","a","n","d","i","n","g"," ","g","e","n","e","r","a","t","o","r","."," ","D","O"," ","N","O","T"," ","E","D","I","T",".">>,
    <<"#"," ","T","r","a","c","k","s"," ","d","o","w","n","s","t","r","e","a","m"," ","E","S","B"," ","b","a","s","e"," ","c","o","m","m","i","t","/","t","a","g"," ","f","o","r"," ","p","a","t","c","h","i","n","g",".">>,
    key \o <<"=">> \o value,
    <<>> >>))

\* Outcome of ensure_esb_info: res, the info file it leaves on disk, whether
\* write_esb_info was called, and whether a WARNING was printed.
InfoKept(res, file, warn) ==
  [res |-> res, info |-> file, wrote |-> FALSE, warn |-> warn]
InfoWritten(key, value) ==
  [res |-> Ok(<<>>), info |-> write_esb_info(key, value), wrote |-> TRUE,
   warn |-> FALSE]

\* An ensure_esb_info that writes without looking at check; used as a mutant.
ensure_esb_info_ignore_check(file, brand, esb_base, check, force) ==
  IF brand = s_esb THEN InfoKept(Ok(<<>>), file, FALSE)
  ELSE
    LET info == load_esb_info(file)
        no_base == ~esb_base.given \/ esb_base.val = <<>>
        kv == normalize_esb_base(esb_base.val)
        existing == DictGet(info, kv.key)
    IN
    IF DictEmpty(info)
      THEN IF no_base
             THEN IF force
                    THEN InfoKept(Ok(<<>>), file, TRUE)
                    ELSE InfoKept(Raise(".esb-info missing"), file, FALSE)
           ELSE InfoWritten(kv.key, kv.value)
    ELSE IF ~has_esb_base(info)
      THEN InfoKept(Raise(".esb-info missing ESB base entry"), file, FALSE)
    ELSE IF no_base THEN InfoKept(Ok(<<>>), file, FALSE)
    ELSE IF existing # <<>> /\ existing = kv.value
      THEN InfoKept(Ok(<<>>), file, FALSE)
    ELSE InfoWritten(kv.key, kv.value)

\* An ensure_esb_info that keeps a record whose key already has a value instead
\* of overwriting it with a differing one; used as a mutant.
ensure_esb_info_no_overwrite(file, brand, esb_base, check, force) ==
  IF brand = s_esb THEN InfoKept(Ok(<<>>), file, FALSE)
  ELSE
    LET info == load_esb_info(file)
        no_base == ~esb_base.given \/ esb_base.val = <<>>
        kv == normalize_esb_base(esb_base.val)
        existing == DictGet(info, kv.key)
    IN
    IF DictEmpty(info)
      THEN IF no_base
             THEN IF force
                    THEN InfoKept(Ok(<<>>), file, TRUE)
                    ELSE InfoKept(Raise(".esb-info missing"), file, FALSE)
           ELSE IF check
             THEN InfoKept(Raise(".esb-info missing for --check"), file, FALSE)
           ELSE InfoWritten(kv.key, kv.value)
    ELSE IF ~has_esb_base(info)
      THEN InfoKept(Raise(".esb-info missing ESB base entry"), file, FALSE)
    ELSE IF no_base THEN InfoKept(Ok(<<>>), file, FALSE)
    ELSE IF existing # <<>>
      THEN IF existing # kv.value /\ check
             THEN InfoKept(Raise(".esb-info mismatch"), file, FALSE)
             ELSE InfoKept(Ok(<<>>), file, FALSE)
    ELSE IF check
      THEN InfoKept(Raise(".esb-info missing key for --check"), file, FALSE)
    ELSE InfoWritten(kv.key, kv.value)

ensure_esb_info(file, brand, esb_base, check, force) ==
  IF brand = s_esb THEN InfoKept(Ok(<<>>), file, FALSE)
  ELSE
    LET info == load_esb_info(file)
        no_base == ~esb_base.given \/ esb_base.val = <<>>
        kv == normalize_esb_base(esb_base.val)
        existing == DictGet(info, kv.key)
    IN
    IF DictEmpty(info)
      THEN IF no_base
             THEN IF force
                    THEN InfoKept(Ok(<<>>), file, TRUE)
                    ELSE InfoKept(Raise(".esb-info missing"), file, FALSE)
           ELSE IF check
             THEN InfoKept(Raise(".esb-info missing for --check"), file, FALSE)
           ELSE InfoWritten(kv.key, kv.value)
    ELSE IF ~has_esb_base(info)
      THEN InfoKept(Raise(".esb-info missing ESB base entry"), file, FALSE)
    ELSE IF no_base THEN InfoKept(Ok(<<>>), file, FALSE)
    ELSE IF existing # <<>>
      THEN IF existing # kv.value
             THEN IF check
                    THEN InfoKept(Raise(".esb-info mismatch"), file, FALSE)
                    ELSE InfoWritten(kv.key, kv.value)
             ELSE InfoKept(Ok(<<>>), file, FALSE)
    ELSE IF check
      THEN InfoKept(Raise(".esb-info missing key for --check"), file, FALSE)
    ELSE InfoWritten(kv.key, kv.value)

(***************************************************************************)
(* branding.py: derive_branding and build_context.                         *)
(***************************************************************************)
LOWER == <<"a","b","c","d","e","f","g","h","i","j","k","l","m",
           "n","o","p","q","r","s","t","u","v","w","x","y","z">>
UPPER == <<"A","B","C","D","E","F","G","H","I","J","K","L","M",
           "N","O","P","Q","R","S","T","U","V","W","X","Y","Z">>
DIGITS == {"0","1","2","3","4","5","6","7","8","9"}
LowerSet == {LOWER[i] : i \in 1..Len(LOWER)}
UpperSet == {UPPER[i] : i \in 1..Len(UPPER)}

\* value.lower(), value.upper()
str_lower(s) ==
  [i \in 1..Len(s) |->
     LET k == str_find(UPPER, s[i], 1) IN IF k # 0 THEN LOWER[k] ELSE s[i]]

str_upper(s) ==
  [i \in 1..Len(s) |->
     LET k == str_find(LOWER, s[i], 1) IN IF k # 0 THEN UPPER[k] ELSE s[i]]

\* re.sub(r"[^<keep>]+", rep, s): every maximal run of characters outside
\* keep becomes one rep
RECURSIVE re_sub_runs(_, _, _, _)
re_sub_runs(s, keep, rep, inrun) ==
  IF s = <<>> THEN <<>>
  ELSE IF Head(s) \in keep
    THEN <<Head(s)>> \o re_sub_runs(Tail(s), keep, rep, FALSE)
  ELSE (IF inrun THEN <<>> ELSE <<rep>>) \o re_sub_runs(Tail(s), keep, rep, TRUE)

\* pattern.fullmatch(value) for a pattern ^[first][rest]*$
re_fullmatch(value, first, rest) ==
  /\ value # <<>>
  /\ value[1] \in first
  /\ \A i \in 2..Len(value) : value[i] \in rest

_ENV_PREFIX_RE(value) == re_fullmatch(value, UpperSet, UpperSet \cup DIGITS \cup {"_"})
_SLUG_RE(value) ==
  re_fullmatch(value, LowerSet \cup DIGITS, LowerSet \cup DIGITS \cup {"-"})
_LABEL_PREFIX_RE(value) ==
  re_fullmatch(value, LowerSet \cup DIGITS, LowerSet \cup DIGITS \cup {".", "-"})

_require_brand(value) ==
  IF str_strip(value) = <<>> THEN Raise("brand must be a non-empty string")
  ELSE Ok(str_strip(value))

\* A _normalize_slug that forgets .strip("-"); used as a mutant.
_normalize_slug_no_strip(value) ==
  LET cleaned ==
        re_sub_runs(str_lower(str_strip(value)), LowerSet \cup DIGITS, "-", FALSE)
  IN IF cleaned = <<>>
       THEN Raise("brand must include at least one alphanumeric character")
       ELSE Ok(cleaned)

_normalize_slug(value) ==
  LET cleaned == str_strip_char(
        re_sub_runs(str_lower(str_strip(value)), LowerSet \cup DIGITS, "-", FALSE),
        "-")
  IN IF cleaned = <<>>
       THEN Raise("brand must include at least one alphanumeric character")
       ELSE Ok(cleaned)

_normalize_env_prefix(value) ==
  LET cleaned == str_strip_char(
        re_sub_runs(str_upper(str_strip(value)), UpperSet \cup DIGITS, "_", FALSE),
        "_")
  IN IF cleaned = <<>> \/ cleaned[1] \notin (LowerSet \cup UpperSet)
       THEN Raise("brand must start with a letter for env_prefix derivation")
       ELSE Ok(cleaned)

\* The Branding record built from a slug and an env prefix
make_branding(slug, env_prefix) ==
  [cli_name |-> slug,
   slug |-> slug,
   env_prefix |-> env_prefix,
   label_prefix |-> <<"c","o","m",".">> \o slug,
   paths |-> [home_dir |-> <<".">> \o slug,
              output_dir |-> <<".">> \o slug,
              staging_dir |-> <<".","s","t","a","g","i","n","g">>],
   root_ca |-> [secret_id |-> slug \o <<"_","r","o","o","t","_","c","a">>,
                cert_filename |-> <<"r","o","o","t","C","A",".","c","r","t">>],
   runtime |-> [
     container_prefix |-> slug,
     namespace |-> slug,
     cni_name |-> slug \o <<"-","n","e","t">>,
     cni_bridge |-> slug \o <<"0">>,
     cni_dir |-> <<"/","r","u","n","/">> \o slug \o <<"/","c","n","i">>,
     resolv_conf_path |-> <<"/","r","u","n","/","c","o","n","t","a","i","n","e","r","d","/">>
                           \o slug \o <<"/","r","e","s","o","l","v",".","c","o","n","f">>,
     label_env |-> slug \o <<"_","e","n","v">>,
     label_function |-> slug \o <<"_","f","u","n","c","t","i","o","n">>,
     label_created_by |-> <<"c","r","e","a","t","e","d","_","b","y">>,
     label_created_by_value |-> slug \o <<"-","a","g","e","n","t">>,
     cgroup_parent |-> slug,
     cgroup_leaf |-> <<"r","u","n","t","i","m","e","-","n","o","d","e">>]]

derive_branding(brand) ==
  LET b == _require_brand(brand) IN
  IF b.st = "raise" THEN b
  ELSE
    LET slug == _normalize_slug(b.val) IN
    IF slug.st = "raise" THEN slug
    ELSE
      LET env_prefix == _normalize_env_prefix(b.val) IN
      IF env_prefix.st = "raise" THEN env_prefix
      ELSE
        LET r == make_branding(slug.val, env_prefix.val) IN
        IF ~_SLUG_RE(r.cli_name) THEN Raise("cli_name has invalid format")
        ELSE IF ~_SLUG_RE(r.slug) THEN Raise("slug has invalid format")
        ELSE IF ~_ENV_PREFIX_RE(r.env_prefix)
          THEN Raise("env_prefix has invalid format")
        ELSE IF ~_LABEL_PREFIX_RE(r.label_prefix)
          THEN Raise("label_prefix has invalid format")
        ELSE Ok(r)

build_context(b) ==
  LET env_prefix_var == <<"$","{">> \o b.env_prefix IN
  (<<"C","L","I","_","N","A","M","E">> :> b.cli_name) @@
  (<<"S","L","U","G">> :> b.slug) @@
  (<<"E","N","V","_","P","R","E","F","I","X">> :> b.env_prefix) @@
  (<<"E","N","V","_","P","R","E","F","I","X","_","V","A","R">> :> env_prefix_var) @@
  (<<"L","A","B","E","L","_","P","R","E","F","I","X">> :> b.label_prefix) @@
  (<<"H","O","M","E","_","D","I","R">> :> b.paths.home_dir) @@
  (<<"O","U","T","P","U","T","_","D","I","R">> :> b.paths.output_dir) @@
  (<<"S","T","A","G","I","N","G","_","D","I","R">> :> b.paths.staging_dir) @@
  (<<"R","O","O","T","_","C","A","_","M","O","U","N","T","_","I","D">> :> b.root_ca.secret_id) @@
  (<<"R","O","O","T","_","C","A","_","C","E","R","T","_","F","I","L","E","N","A","M","E">> :> b.root_ca.cert_filename) @@
  (<<"R","U","N","T","I","M","E","_","C","O","N","T","A","I","N","E","R","_","P","R","E","F","I","X">> :> b.runtime.container_prefix) @@
  (<<"R","U","N","T","I","M","E","_","N","A","M","E","S","P","A","C","E">> :> b.runtime.namespace) @@
  (<<"R","U","N","T","I","M","E","_","C","N","I","_","N","A","M","E">> :> b.runtime.cni_name) @@
  (<<"R","U","N","T","I","M","E","_","C","N","I","_","B","R","I","D","G","E">> :> b.runtime.cni_bridge) @@
  (<<"R","U","N","T","I","M","E","_","C","N","I","_","D","I","R">> :> b.runtime.cni_dir) @@
  (<<"R","U","N","T","I","M","E","_","R","E","S","O","L","V","_","C","O","N","F","_","P","A","T","H">> :> b.runtime.resolv_conf_path) @@
  (<<"R","U","N","T","I","M","E","_","L","A","B","E","L","_","E","N","V">> :> b.runtime.label_env) @@
  (<<"R","U","N","T","I","M","E","_","L","A","B","E","L","_","F","U","N","C","T","I","O","N">> :> b.runtime.label_function) @@
  (<<"R","U","N","T","I","M","E","_","L","A","B","E","L","_","C","R","E","A","T","E","D","_","B","Y">> :> b.runtime.label_created_by) @@
  (<<"R","U","N","T","I","M","E","_","L","A","B","E","L","_","C","R","E","A","T","E","D","_","B","Y","_","V","A","L","U","E">> :> b.runtime.label_created_by_value) @@
  (<<"R","U","N","T","I","M","E","_","C","G","R","O","U","P","_","P","A","R","E","N","T">> :> b.runtime.cgroup_parent) @@
  (<<"R","U","N","T","I","M","E","_","C","G","R","O","U","P","_","L","E","A","F">> :> b.runtime.cgroup_leaf)

(***************************************************************************)
(* Env file: write_branding_env.                                           *)
(***************************************************************************)
\* shlex.quote (standard library): a value made only of the characters
\* [A-Za-z0-9_@%+=:,./-] is left as it is, the empty value becomes '',
\* anything else is wrapped in single quotes, each ' written '"'"'
SHLEX_SAFE ==
  LowerSet \cup UpperSet \cup DIGITS \cup {"_","@","%","+","=",":",",",".","/","-"}

RECURSIVE shlex_escape(_)
shlex_escape(s) ==
  IF s = <<>> THEN <<>>
  ELSE (IF Head(s) = "'" THEN <<"'","\"","'","\"","'">> ELSE <<Head(s)>>)
       \o shlex_escape(Tail(s))

shlex_quote(s) ==
  IF s = <<>> THEN <<"'","'">>
  ELSE IF \A i \in 1..Len(s) : s[i] \in SHLEX_SAFE THEN s
  ELSE <<"'">> \o shlex_escape(s) \o <<"'">>

env_vars(b, brand_name) ==
  <<
    [name |-> <<"B","R","A","N","D","I","N","G","_","N","A","M","E">>, value |-> brand_name],
    [name |-> <<"B","R","A","N","D","I","N","G","_","C","L","I","_","N","A","M","E">>, value |-> b.cli_name],
    [name |-> <<"B","R","A","N","D","I","N","G","_","S","L","U","G">>, value |-> b.slug],
    [name |-> <<"B","R","A","N","D","I","N","G","_","E","N","V","_","P","R","E","F","I","X">>, value |-> b.env_prefix],
    [name |-> <<"B","R","A","N","D","I","N","G","_","L","A","B","E","L","_","P","R","E","F","I","X">>, value |-> b.label_prefix]
  >>

\* os.environ.update({name: value for name, value in env_vars})
environ_update(environ_, vs) ==
  [n \in (DOMAIN environ_) \cup {vs[i].name : i \in 1..Len(vs)} |->
     IF \E i \in 1..Len(vs) : vs[i].name = n
       THEN vs[CHOOSE i \in 1..Len(vs) : vs[i].name = n].value
       ELSE environ_[n]]

write_branding_env(b, brand_name) ==
  LET vars == env_vars(b, brand_name) IN
  File(str_join_lines(
    << <<"#"," ","A","u","t","o","-","g","e","n","e","r","a","t","e","d"," ","b","y"," ","b","r","a","n","d","i","n","g"," ","g","e","n","e","r","a","t","o","r","."," ","D","O"," ","N","O","T"," ","E","D","I","T",".">>,
       <<"#"," ","S","o","u","r","c","e"," ","t","h","i","s"," ","f","i","l","e"," ","t","o"," ","p","o","p","u","l","a","t","e"," ","c","o","m","m","o","n"," ","b","r","a","n","d","i","n","g"," ","i","d","e","n","t","i","f","i","e","r","s",".">> >>
    \o [i \in 1..Len(vars) |->
          <<"e","x","p","o","r","t"," ">> \o vars[i].name \o <<"=">>
          \o shlex_quote(vars[i].value)])
    \o <<"\n">>)

(***************************************************************************)
(* Templates: render_string, write_file, render_templates.                 *)
(***************************************************************************)
TEMPLATES == <<
  [template |-> <<"t","o","o","l","s","/","b","r","a","n","d","i","n","g","/","t","e","m","p","l","a","t","e","s","/","c","o","n","f","i","g","/","d","e","f","a","u","l","t","s",".","e","n","v",".","t","m","p","l">>,
   target |-> <<"c","o","n","f","i","g","/","d","e","f","a","u","l","t","s",".","e","n","v">>],
  [template |-> <<"t","o","o","l","s","/","b","r","a","n","d","i","n","g","/","t","e","m","p","l","a","t","e","s","/","M","a","k","e","f","i","l","e",".","t","m","p","l">>,
   target |-> <<"M","a","k","e","f","i","l","e">>],
  [template |-> <<"t","o","o","l","s","/","b","r","a","n","d","i","n","g","/","t","e","m","p","l","a","t","e","s","/","m","e","t","a","/","m","e","t","a",".","g","o",".","t","m","p","l">>,
   target |-> <<"m","e","t","a","/","m","e","t","a",".","g","o">>],
  [template |-> <<"t","o","o","l","s","/","b","r","a","n","d","i","n","g","/","t","e","m","p","l","a","t","e","s","/","d","o","c","k","e","r","-","c","o","m","p","o","s","e",".","d","o","c","k","e","r",".","y","m","l",".","t","m","p","l">>,
   target |-> <<"d","o","c","k","e","r","-","c","o","m","p","o","s","e",".","d","o","c","k","e","r",".","y","m","l">>],
  [template |-> <<"t","o","o","l","s","/","b","r","a","n","d","i","n","g","/","t","e","m","p","l","a","t","e","s","/","d","o","c","k","e","r","-","c","o","m","p","o","s","e",".","c","o","n","t","a","i","n","e","r","d",".","y","m","l",".","t","m","p","l">>,
   target |-> <<"d","o","c","k","e","r","-","c","o","m","p","o","s","e",".","c","o","n","t","a","i","n","e","r","d",".","y","m","l">>],
  [template |-> <<"t","o","o","l","s","/","b","r","a","n","d","i","n","g","/","t","e","m","p","l","a","t","e","s","/","d","o","c","k","e","r","-","c","o","m","p","o","s","e",".","f","c",".","y","m","l",".","t","m","p","l">>,
   target |-> <<"d","o","c","k","e","r","-","c","o","m","p","o","s","e",".","f","c",".","y","m","l">>],
  [template |-> <<"t","o","o","l","s","/","b","r","a","n","d","i","n","g","/","t","e","m","p","l","a","t","e","s","/","d","o","c","k","e","r","-","c","o","m","p","o","s","e",".","f","c","-","n","o","d","e",".","y","m","l",".","t","m","p","l">>,
   target |-> <<"d","o","c","k","e","r","-","c","o","m","p","o","s","e",".","f","c","-","n","o","d","e",".","y","m","l">>],
  [template |-> <<"t","o","o","l","s","/","b","r","a","n","d","i","n","g","/","t","e","m","p","l","a","t","e","s","/","d","o","c","k","e","r","-","b","a","k","e",".","h","c","l",".","t","m","p","l">>,
   target |-> <<"d","o","c","k","e","r","-","b","a","k","e",".","h","c","l">>]
>>

PLACEHOLDER_NAME == UpperSet \cup DIGITS \cup {"_"}

\* the first index >= i of s whose character is not in set (Len(s)+1 if none)
RECURSIVE skip_while(_, _, _)
skip_while(s, i, set) ==
  IF i <= Len(s) /\ s[i] \in set THEN skip_while(s, i + 1, set) ELSE i

\* _PLACEHOLDER_RE = {{\s*([A-Z0-9_]+)\s*}} matched at index i of s:
\* [ok, name (group 1), end (the index after the match)]
placeholder_at(s, i) ==
  LET j == skip_while(s, i + 2, WHITESPACE)
      k == skip_while(s, j, PLACEHOLDER_NAME)
      l == skip_while(s, k, WHITESPACE)
  IN
  IF /\ i + 1 <= Len(s) /\ s[i] = "{" /\ s[i + 1] = "{"
     /\ k > j
     /\ l + 1 <= Len(s) /\ s[l] = "}" /\ s[l + 1] = "}"
    THEN [ok |-> TRUE, name |-> SubSeq(s, j, k - 1), end |-> l + 2]
    ELSE [ok |-> FALSE, name |-> <<>>, end |-> i]

\* A substitution that leaves a marker whose key the context lacks in place
\* instead of raising; used as a mutant.
RECURSIVE placeholder_sub_keep_unknown(_, _, _)
placeholder_sub_keep_unknown(s, i, context) ==
  IF i > Len(s) THEN Ok(<<>>)
  ELSE
    LET m == placeholder_at(s, i) IN
    IF m.ok /\ m.name \in DOMAIN context
      THEN Ok(context[m.name]
              \o placeholder_sub_keep_unknown(s, m.end, context).val)
      ELSE Ok(<<s[i]>> \o placeholder_sub_keep_unknown(s, i + 1, context).val)

\* _PLACEHOLDER_RE.sub(replace, template) from index i on
RECURSIVE placeholder_sub(_, _, _)
placeholder_sub(s, i, context) ==
  IF i > Len(s) THEN Ok(<<>>)
  ELSE
    LET m == placeholder_at(s, i) IN
    IF m.ok
      THEN IF m.name \notin DOMAIN context
             THEN Raise("unknown template key")
             ELSE LET rest == placeholder_sub(s, m.end, context) IN
                  IF rest.st = "raise" THEN rest
                  ELSE Ok(context[m.name] \o rest.val)
      ELSE LET rest == placeholder_sub(s, i + 1, context) IN
           IF rest.st = "raise" THEN rest ELSE Ok(<<s[i]>> \o rest.val)

\* _PLACEHOLDER_RE.search(text)
placeholder_search(s) == \E i \in 1..Len(s) : placeholder_at(s, i).ok

render_string(template, context) ==
  LET rendered == placeholder_sub(template, 1, context) IN
  IF rendered.st = "raise" THEN rendered
  ELSE IF placeholder_search(rendered.val)
    THEN Raise("unresolved template placeholders detected")
  ELSE rendered

\* path.exists() / path.read_text() in a directory tree fs (path -> file)
FileAt(fs, path) == IF path \in DOMAIN fs THEN fs[path] ELSE NoFile

\* A write_file that opens the target for appending; used as a mutant.
write_file_append(old, content) == File(old.text \o content)

\* write_file(path, content): the file at path after the call, old being the
\* file before it
write_file(old, content) == File(content)

\* render_templates from the i-th spec on: the outcome, the mismatch list, the
\* target tree it leaves, and the paths it has written
RECURSIVE render_from(_, _, _, _, _, _, _)
render_from(i, fs, mismatches, written, tmpl, context, check) ==
  IF i > Len(TEMPLATES)
    THEN [res |-> Ok(<<>>), mismatches |-> mismatches, targets |-> fs,
          written |-> written]
  ELSE
    LET spec == TEMPLATES[i]
        target_path == render_string(spec.target, context)
        rendered == render_string(FileAt(tmpl, spec.template).text, context)
    IN
    IF target_path.st = "raise"
      THEN [res |-> target_path, mismatches |-> mismatches, targets |-> fs,
            written |-> written]
    ELSE IF rendered.st = "raise"
      THEN [res |-> rendered, mismatches |-> mismatches, targets |-> fs,
            written |-> written]
    ELSE IF check
      THEN IF ~FileAt(fs, target_path.val).exists
             THEN render_from(i + 1, fs, Append(mismatches, target_path.val),
                              written, tmpl, context, check)
           ELSE IF FileAt(fs, target_path.val).text # rendered.val
             THEN render_from(i + 1, fs, Append(mismatches, target_path.val),
                              written, tmpl, context, check)
           ELSE render_from(i + 1, fs, mismatches, written, tmpl, context, check)
    ELSE render_from(
           i + 1,
           DictSet(fs, target_path.val,
                   write_file(FileAt(fs, target_path.val), rendered.val)),
           mismatches, written \cup {target_path.val}, tmpl, context, check)

\* A render_templates that stops checking at the first drift it finds; used
\* as a mutant.
render_templates_first_drift(fs, tmpl, context, check) ==
  LET r == render_from(1, fs, <<>>, {}, tmpl, context, check) IN
  [r EXCEPT !.mismatches = IF Len(@) > 1 THEN <<Head(@)>> ELSE @]

render_templates(fs, tmpl, context, check) ==
  render_from(1, fs, <<>>, {}, tmpl, context, check)

(***************************************************************************)
(* resolve_repo_root: an explicit --root wins; otherwise the search from   *)
(* the working directory upward for docker-compose.yml decides.            *)
(***************************************************************************)
resolve_repo_root(root_given, marker_found) ==
  IF root_given THEN Ok(<<>>)
  ELSE IF marker_found THEN Ok(<<>>)
  ELSE Raise("repository root not found (docker-compose.yml missing)")

(***************************************************************************)
(* main(): exit code once the try block has ended.                         *)
(***************************************************************************)
\* A main that reports the mismatch list whatever the mode and forgets the
\* except branch; used as a mutant.
main_exit_code_no_except(raised, check, mismatch_list) ==
  IF check /\ mismatch_list # <<>> THEN 1 ELSE 0

main_exit_code(raised, check, mismatch_list) ==
  IF raised THEN 1
  ELSE IF check /\ mismatch_list # <<>> THEN 1
  ELSE 0

(***************************************************************************)
(* Inputs.                                                                 *)
(***************************************************************************)
\* the number of generator runs in one behaviour
MaxRuns == 2

NoArg == [given |-> FALSE, val |-> <<>>]
Arg(t) == [given |-> TRUE, val |-> t]

\* --brand: absent, blank, the reserved brand, a brand to be trimmed, a brand
\* whose env prefix cannot be derived
BrandArgs ==
  {NoArg, Arg(<<" "," ">>), Arg(s_esb), Arg(<<" ","A","c","m","e"," ">>),
   Arg(<<"9","x">>)}

\* --esb-base: absent, empty, blank, a tag to be trimmed, and hexadecimal
\* strings around both ends of the commit pattern's length range
BaseArgs ==
  {NoArg, Arg(<<>>), Arg(<<" "," ">>), Arg(<<" ","v","1"," ">>),
   Arg(Rep("a", HexMin - 1)), Arg(Rep("a", HexMin)),
   Arg(Rep("A", HexMax)), Arg(Rep("a", HexMax + 1))}

\* config/branding.yaml: absent, two files with a brand, one without
ConfigFiles ==
  {NoFile,
   File(<<"b","r","a","n","d",":"," ","e","s","b","\n">>),
   File(<<"#"," ","c","\n","b","r","a","n","d",":"," ","'","a","c","m","e","'"," ","#"," ","t","\n">>),
   File(<<"#"," ","l","o","c","a","l"," ","n","o","t","e","s","\n">>)}

\* .esb-info: absent, comments and blank lines only, an unrelated key only,
\* a tag record, a commit record
InfoFiles ==
  {NoFile,
   File(<<"#"," ","c","\n","\n">>),
   File(<<"F","O","O","=","b","a","r","\n">>),
   File(<<"E","S","B","_","B","A","S","E","_","T","A","G","="," ","v","1","\n">>),
   File(k_ESB_BASE_COMMIT \o <<"=">> \o Rep("a", HexMin) \o <<"\n">>)}

\* branding.lock: absent, pinning commit c1, holding an empty tool.commit
LockFiles ==
  {NoFile,
   File(<<"t","o","o","l",":","\n"," "," ","c","o","m","m","i","t",":"," ","\"","c","1","\"","\n">>),
   File(<<"t","o","o","l",":","\n"," "," ","c","o","m","m","i","t",":"," ","\"","\"","\n">>)}

\* `git rev-parse HEAD` in the tool repository: c1, c2, or the command fails
GitHeads == {Ok(<<"c","1","\n">>), Ok(<<"c","2","\n">>), Raise("git failed")}

\* --root given; not given and docker-compose.yml found; not given, not found
RootInputs ==
  {[root_given |-> TRUE, marker_found |-> FALSE],
   [root_given |-> FALSE, marker_found |-> TRUE],
   [root_given |-> FALSE, marker_found |-> FALSE]}

\* template bodies in the tool repository
TemplateBodies(third) ==
  (TEMPLATES[1].template :> File(<<"P","=","{","{","E","N","V","_","P","R","E","F","I","X","}","}","\n">>)) @@
  (TEMPLATES[2].template :> File(<<"c","=","{","{"," ","C","L","I","_","N","A","M","E"," ","}","}","\n">>)) @@
  (TEMPLATES[3].template :> File(third)) @@
  (TEMPLATES[4].template :> File(<<"{","{","R","U","N","T","I","M","E","_","C","N","I","_","B","R","I","D","G","E","}","}">>)) @@
  (TEMPLATES[5].template :> File(<<"{","{","E","N","V","_","P","R","E","F","I","X","_","V","A","R","}","}","_","X","}">>)) @@
  (TEMPLATES[6].template :> File(<<"{","{","H","O","M","E","_","D","I","R","}","}">>)) @@
  (TEMPLATES[7].template :> File(<<"{","{","R","O","O","T","_","C","A","_","M","O","U","N","T","_","I","D","}","}">>)) @@
  (TEMPLATES[8].template :> File(<<"n","=","{","{","R","U","N","T","I","M","E","_","N","A","M","E","S","P","A","C","E","}","}","\n">>))

\* every placeholder known; one template naming a key the context lacks
TemplateSets ==
  {TemplateBodies(<<"{","{","S","L","U","G","}","}","/","{","{","L","A","B","E","L","_","P","R","E","F","I","X","}","}">>),
   TemplateBodies(<<"{","{","M","I","S","S","I","N","G","}","}">>)}

\* generated files already in the repository: none; or a stale env file, a
\* first target that is up to date for brand esb, a stale second target and
\* the other targets missing
OutputLayouts ==
  {[env |-> NoFile, targets |-> EmptyDict],
   [env |-> File(<<"o","l","d","\n">>),
    targets |->
      (TEMPLATES[1].target :> File(<<"P","=","E","S","B","\n">>)) @@
      (TEMPLATES[2].target :> File(<<"o","l","d","\n">>))]}

(***************************************************************************)
(* State.                                                                  *)
(***************************************************************************)
VARIABLES
  lockFile,     \* branding.lock in the tool repository
  templates,    \* template path -> file, in the tool repository
  configFile,   \* config/branding.yaml under the root
  infoFile,     \* .esb-info under the root
  envFile,      \* .branding.env under the root
  targets,      \* target path -> file, under the root
  toolHead,     \* what `git rev-parse HEAD` gives (st = "none": not yet run)
  root,         \* "unresolved" or "resolved": the root of the repository
  environ,      \* os.environ entries set by write_branding_env
  args,         \* parsed command line of the current run
  pc,           \* position in main()
  run,          \* number of runs started
  lock_data,    \* main's local lock_data
  brand_name,   \* main's local brand_name
  branding,     \* main's local branding
  mismatches,   \* main's local mismatches
  failed_at,    \* the stage whose BrandingError the except branch caught
  error,        \* that error's message
  exit_code,    \* main's return value (-1 until it returns)
  warnings,     \* WARNING lines printed to stderr in the current run
  writes,       \* files written in the current run
  pre,          \* the files as the current run found them
  prev          \* check flag and exit code of the previous run

\* State of the lock updater (tools/branding/update_lock.py), which shares
\* branding.lock with the generator, and of render_templates' local rendered.
VARIABLES
  upd_args,     \* update_lock: parsed command line and what git reports
  upd_pc,       \* update_lock: position in main()
  upd_run,      \* update_lock: number of runs started
  upd_existing, \* update_lock: main's local existing
  upd_new_data, \* update_lock: main's local new_data
  clock,        \* the wall clock _now_iso reads, in seconds
  lock_pre,     \* branding.lock as the current updater run found it
  lock_wrote,   \* the current updater run wrote branding.lock
  prev_wrote,   \* the previous updater run wrote branding.lock
  rendered_text \* render_templates: its local rendered (render_string's result)

disk == <<lockFile, templates, configFile, infoFile, envFile, targets>>
locals == <<lock_data, brand_name, branding, mismatches>>
updater == <<upd_args, upd_pc, upd_run, upd_existing, upd_new_data, clock,
             lock_pre, lock_wrote, prev_wrote>>
vars == <<lockFile, templates, configFile, infoFile, envFile, targets,
          toolHead, root, environ, args, pc, run, lock_data, brand_name,
          branding, mismatches, failed_at, error, exit_code, warnings,
          writes, pre, prev, updater, rendered_text>>

\* no command line: the updater has not been started
NoUpdArgs ==
  [esb_repo |-> [given |-> FALSE, val |-> <<>>],
   esb_ref |-> [given |-> FALSE, val |-> <<>>],
   brand |-> <<>>,
   remote |-> [given |-> FALSE, val |-> <<>>],
   tool_commit |-> <<>>,
   tool_ref |-> [given |-> FALSE, val |-> <<>>],
   esb_commit |-> <<>>]

\* the updater is not running
UpdaterIdle ==
  /\ upd_args = NoUpdArgs
  /\ upd_pc = "idle"
  /\ upd_run = 0
  /\ upd_existing = NoneVal
  /\ upd_new_data = EmptyDict
  /\ clock = 0
  /\ lock_pre = NoFile
  /\ lock_wrote = FALSE
  /\ prev_wrote = FALSE

NoWrites == [config |-> FALSE, info |-> FALSE, env |-> FALSE, targets |-> {}]
Snapshot ==
  [config |-> configFile, info |-> infoFile, env |-> envFile,
   targets |-> targets]

Init ==
  /\ lockFile \in LockFiles
  /\ templates \in TemplateSets
  /\ configFile \in ConfigFiles
  /\ infoFile \in InfoFiles
  /\ \E layout \in OutputLayouts :
       /\ envFile = layout.env
       /\ targets = layout.targets
  /\ toolHead = NoneVal
  /\ root = "unresolved"
  /\ environ = EmptyDict
  /\ args = [brand |-> NoArg, esb_base |-> NoArg, check |-> FALSE,
             force |-> FALSE]
  /\ pc = "idle"
  /\ run = 0
  /\ lock_data = EmptyDict
  /\ brand_name = <<>>
  /\ branding = NoneVal
  /\ mismatches = <<>>
  /\ failed_at = ""
  /\ error = ""
  /\ exit_code = -1
  /\ warnings = {}
  /\ writes = NoWrites
  /\ pre = Snapshot
  /\ prev = [check |-> FALSE, exit_code |-> -1]
  /\ UpdaterIdle
  /\ rendered_text = NoneVal

\* A run begins: main() has parsed its arguments.
Begin(a) ==
  /\ args' = a
  /\ pc' = "load_lock_data"
  /\ run' = run + 1
  /\ lock_data' = EmptyDict
  /\ brand_name' = <<>>
  /\ branding' = NoneVal
  /\ mismatches' = <<>>
  /\ failed_at' = ""
  /\ error' = ""
  /\ exit_code' = -1
  /\ warnings' = {}
  /\ writes' = NoWrites
  /\ pre' = Snapshot
  /\ prev' = [check |-> args.check, exit_code |-> exit_code]
  /\ UNCHANGED <<disk, toolHead, root, environ>>
  /\ UNCHANGED <<updater, rendered_text>>

\* parse_args, first run: any command line
Start ==
  /\ pc = "idle"
  /\ \E b \in BrandArgs, e \in BaseArgs, c \in BOOLEAN, f \in BOOLEAN :
       Begin([brand |-> b, esb_base |-> e, check |-> c, force |-> f])

\* parse_args, a later run: after a run that exited 0 the generator is invoked
\* again on the files that run left, with the same brand, base reference and
\* force flag, with or without --check
Rerun ==
  /\ pc = "done"
  /\ exit_code = 0
  /\ run < MaxRuns
  /\ \E c \in BOOLEAN : Begin([args EXCEPT !.check = c])

\* the except branch of main catches the BrandingError of a stage
Caught(stage, msg) ==
  /\ failed_at' = stage
  /\ error' = msg
  /\ pc' = "finish"

\* lock_data = load_lock_data(REPO_ROOT / LOCK_FILE)
LoadLock ==
  /\ pc = "load_lock_data"
  /\ LET r == load_lock_data(lockFile) IN
       IF r.st = "raise"
         THEN /\ Caught("load_lock_data", r.err)
              /\ UNCHANGED lock_data
         ELSE /\ lock_data' = r.val
              /\ pc' = "validate_tool_commit"
              /\ UNCHANGED <<failed_at, error>>
  /\ UNCHANGED <<disk, toolHead, root, environ, args, run, brand_name,
                 branding, mismatches, exit_code, warnings, writes, pre, prev>>
  /\ UNCHANGED <<updater, rendered_text>>

\* validate_tool_commit(lock_data, REPO_ROOT, skip=args.force); git runs only
\* when the lock record holds a tool.commit
ValidateToolCommit ==
  /\ pc = "validate_tool_commit"
  /\ \E head \in (IF DictGet(lock_data, k_tool_commit) = <<>>
                    \/ toolHead.st # "none"
                  THEN {toolHead} ELSE GitHeads) :
       LET r == validate_tool_commit(lock_data, head, args.force) IN
         /\ toolHead' = head
         /\ warnings' = IF r.warn
                          THEN warnings \cup {"tool repo commit mismatch"}
                          ELSE warnings
         /\ IF r.res.st = "raise"
              THEN Caught("validate_tool_commit", r.res.err)
              ELSE /\ pc' = "resolve_repo_root"
                   /\ UNCHANGED <<failed_at, error>>
  /\ UNCHANGED <<disk, root, environ, args, run, locals, exit_code, writes,
                 pre, prev>>
  /\ UNCHANGED <<updater, rendered_text>>

\* root = resolve_repo_root(args.root); a root resolved by an earlier run of
\* the same command line is resolved again
ResolveRoot ==
  /\ pc = "resolve_repo_root"
  /\ \E inp \in (IF root = "resolved"
                   THEN {[root_given |-> TRUE, marker_found |-> FALSE]}
                   ELSE RootInputs) :
       LET r == resolve_repo_root(inp.root_given, inp.marker_found) IN
         IF r.st = "raise"
           THEN /\ Caught("resolve_repo_root", r.err)
                /\ UNCHANGED root
           ELSE /\ root' = "resolved"
                /\ pc' = "resolve_brand"
                /\ UNCHANGED <<failed_at, error>>
  /\ UNCHANGED <<disk, toolHead, environ, args, run, locals, exit_code,
                 warnings, writes, pre, prev>>
  /\ UNCHANGED <<updater, rendered_text>>

\* brand_name = resolve_brand(args.brand, root, check=args.check)
ResolveBrand ==
  /\ pc = "resolve_brand"
  /\ LET r == resolve_brand(args.brand, configFile, args.check) IN
       /\ configFile' = r.config
       /\ writes' = [writes EXCEPT !.config = (r.config # configFile)]
       /\ IF r.res.st = "raise"
            THEN /\ Caught("resolve_brand", r.res.err)
                 /\ UNCHANGED brand_name
            ELSE /\ brand_name' = r.res.val
                 /\ pc' = "ensure_esb_info"
                 /\ UNCHANGED <<failed_at, error>>
  /\ UNCHANGED <<lockFile, templates, infoFile, envFile, targets, toolHead,
                 root, environ, args, run, lock_data, branding, mismatches,
                 exit_code, warnings, pre, prev>>
  /\ UNCHANGED <<updater, rendered_text>>

\* ensure_esb_info(root, brand_name, args.esb_base, check=..., force=...)
EnsureEsbInfo ==
  /\ pc = "ensure_esb_info"
  /\ LET r == ensure_esb_info(infoFile, brand_name, args.esb_base, args.check,
                              args.force) IN
       /\ infoFile' = r.info
       /\ writes' = [writes EXCEPT !.info = r.wrote]
       /\ warnings' = IF r.warn THEN warnings \cup {".esb-info missing"}
                      ELSE warnings
       /\ IF r.res.st = "raise"
            THEN Caught("ensure_esb_info", r.res.err)
            ELSE /\ pc' = "derive_branding"
                 /\ UNCHANGED <<failed_at, error>>
  /\ UNCHANGED <<lockFile, templates, configFile, envFile, targets, toolHead,
                 root, environ, args, run, locals, exit_code, pre, prev>>
  /\ UNCHANGED <<updater, rendered_text>>

\* branding = derive_branding(brand_name)
DeriveBranding ==
  /\ pc = "derive_branding"
  /\ LET r == derive_branding(brand_name) IN
       IF r.st = "raise"
         THEN /\ Caught("derive_branding", r.err)
              /\ UNCHANGED branding
         ELSE /\ branding' = r
              /\ pc' = "write_branding_env"
              /\ UNCHANGED <<failed_at, error>>
  /\ UNCHANGED <<disk, toolHead, root, environ, args, run, lock_data,
                 brand_name, mismatches, exit_code, warnings, writes, pre,
                 prev>>
  /\ UNCHANGED <<updater, rendered_text>>

\* if not args.check: write_branding_env(root, branding, brand_name)
WriteBrandingEnv ==
  /\ pc = "write_branding_env"
  /\ IF args.check
       THEN UNCHANGED <<envFile, environ, writes>>
       ELSE /\ envFile' = write_branding_env(branding.val, brand_name)
            /\ environ' = environ_update(environ,
                                         env_vars(branding.val, brand_name))
            /\ writes' = [writes EXCEPT !.env = TRUE]
  /\ pc' = "render_templates"
  /\ UNCHANGED <<lockFile, templates, configFile, infoFile, targets, toolHead,
                 root, args, run, locals, failed_at, error, exit_code,
                 warnings, pre, prev>>
  /\ UNCHANGED <<updater, rendered_text>>

\* context = build_context(branding); mismatches = render_templates(...)
RenderTemplates ==
  /\ pc = "render_templates"
  /\ LET r == render_templates(targets, templates, build_context(branding.val),
                               args.check) IN
       /\ targets' = r.targets
       /\ writes' = [writes EXCEPT !.targets = r.written]
       /\ IF r.res.st = "raise"
            THEN /\ Caught("render_templates", r.res.err)
                 /\ UNCHANGED mismatches
            ELSE /\ mismatches' = r.mismatches
                 /\ pc' = "finish"
                 /\ UNCHANGED <<failed_at, error>>
  /\ UNCHANGED <<lockFile, templates, configFile, infoFile, envFile, toolHead,
                 root, environ, args, run, lock_data, brand_name, branding,
                 exit_code, warnings, pre, prev>>
  /\ UNCHANGED <<updater, rendered_text>>

\* main returns: 1 from the except branch or on mismatches in check mode
Finish ==
  /\ pc = "finish"
  /\ exit_code' = main_exit_code(failed_at # "", args.check, mismatches)
  /\ pc' = "done"
  /\ UNCHANGED <<disk, toolHead, root, environ, args, run, locals, failed_at,
                 error, warnings, writes, pre, prev>>
  /\ UNCHANGED <<updater, rendered_text>>

Next ==
  \/ Start
  \/ Rerun
  \/ LoadLock
  \/ ValidateToolCommit
  \/ ResolveRoot
  \/ ResolveBrand
  \/ EnsureEsbInfo
  \/ DeriveBranding
  \/ WriteBrandingEnv
  \/ RenderTemplates
  \/ Finish

Spec == Init /\ [][Next]_vars

(***************************************************************************)
(* Vocabulary of the properties.                                           *)
(***************************************************************************)
Stages ==
  <<"load_lock_data", "validate_tool_commit", "resolve_repo_root",
    "resolve_brand", "ensure_esb_info", "derive_branding",
    "write_branding_env", "render_templates">>

StageIndex(name) == CHOOSE i \in 1..Len(Stages) : Stages[i] = name

\* the stage raised BrandingError in the current run
Failed(stage) == failed_at = stage

\* the stage returned normally in the current run
Returned(stage) ==
  IF pc \in {"finish", "done"}
    THEN failed_at = "" \/ StageIndex(failed_at) > StageIndex(stage)
    ELSE pc # "idle" /\ StageIndex(pc) > StageIndex(stage)

\* the stage has run in the current run
Called(stage) == Failed(stage) \/ Returned(stage)

\* --brand was given and is not blank
ExplicitBrand == args.brand.given /\ str_strip(args.brand.val) # <<>>

\* --esb-base is absent (None or the empty string)
NoBaseArg == ~args.esb_base.given \/ args.esb_base.val = <<>>

\* the config file records brand b
Records(file, b) == file.exists /\ load_brand_from_config(file) = Ok(b)

\* the lines of an info file that are neither blank nor comments
InfoEntries(file) ==
  SelectSeq(str_splitlines(file.text),
            LAMBDA l : str_strip(l) # <<>>
                       /\ ~str_startswith(str_strip(l), <<"#">>))

\* the info file holds exactly the one entry key=value
HoldsExactly(file, key, value) ==
  file.exists /\ InfoEntries(file) = << key \o <<"=">> \o value >>

InfoUntouched == infoFile = pre.info /\ ~writes.info

AllTargets == {TEMPLATES[i].target : i \in 1..Len(TEMPLATES)}

(***************************************************************************)
(* Properties.                                                             *)
(***************************************************************************)
\* C1: a run in check mode writes nothing: at every point of the run, and so
\* when main returns with 0 or 1, the branding config, the info file, the env
\* file and every template target are as the run found them.
C1_CheckModeWritesNothing ==
  (pc # "idle" /\ args.check) => (Snapshot = pre /\ writes = NoWrites)

\* a check run that went through every stage and found drift
C1_Witness ==
  /\ pc = "done" /\ args.check /\ failed_at = "" /\ mismatches # <<>>
  /\ brand_name # s_esb /\ pre.info.exists

\* C2: resolve_brand with a non-blank explicit brand, not in check mode,
\* returns the trimmed explicit brand and leaves the config file as it was.
C2_ExplicitBrandReturnedConfigKept ==
  (Called("resolve_brand") /\ ExplicitBrand /\ ~args.check) =>
    /\ Returned("resolve_brand")
    /\ brand_name = str_strip(args.brand.val)
    /\ configFile = pre.config

C4_ResolutionTable ==
  Called("resolve_brand") =>
    LET loaded == load_brand_from_config(pre.config)
        has_value == loaded.st = "ok"
    IN
    IF ExplicitBrand
      THEN IF args.check /\ has_value /\ loaded.val # str_strip(args.brand.val)
             THEN Failed("resolve_brand")
             ELSE /\ Returned("resolve_brand")
                  /\ brand_name = str_strip(args.brand.val)
      ELSE IF has_value
             THEN Returned("resolve_brand") /\ brand_name = loaded.val
             ELSE Failed("resolve_brand")

\* C5: for a brand other than esb, an info file that exists but holds neither
\* ESB_BASE_COMMIT nor ESB_BASE_TAG makes ensure_esb_info fail and leaves the
\* file unchanged.
C5_IncompleteInfoRejected ==
  (/\ Called("ensure_esb_info") /\ brand_name # s_esb
   /\ pre.info.exists /\ ~has_esb_base(load_esb_info(pre.info))) =>
    (Failed("ensure_esb_info") /\ InfoUntouched)

\* C6: for a brand other than esb and no info file: without a base reference
\* ensure_esb_info returns without writing under force and fails otherwise;
\* with one it fails without writing in check mode and otherwise writes a file
\* holding exactly one entry, ESB_BASE_COMMIT when the trimmed argument is 7 to
\* 40 hexadecimal characters and ESB_BASE_TAG in every other case, with the
\* trimmed argument as its value.
C6_NoRecordTable ==
  (Called("ensure_esb_info") /\ brand_name # s_esb /\ ~pre.info.exists) =>
    IF NoBaseArg
      THEN IF args.force
             THEN Returned("ensure_esb_info") /\ InfoUntouched
             ELSE Failed("ensure_esb_info") /\ InfoUntouched
    ELSE IF args.check
      THEN Failed("ensure_esb_info") /\ InfoUntouched
    ELSE
      LET v == str_strip(args.esb_base.val)
          hex == /\ Len(v) \in 7..40
                 /\ \A i \in 1..Len(v) : v[i] \in HEXDIGITS
      IN
      /\ Returned("ensure_esb_info")
      /\ writes.info
      /\ HoldsExactly(infoFile,
                      IF hex THEN k_ESB_BASE_COMMIT ELSE k_ESB_BASE_TAG, v)

\* a commit of the shortest accepted length was written to a new info file
C6_Witness ==
  /\ Returned("ensure_esb_info") /\ brand_name # s_esb /\ ~pre.info.exists
  /\ ~args.check /\ args.esb_base = Arg(Rep("a", HexMin))
  /\ HoldsExactly(infoFile, k_ESB_BASE_COMMIT, Rep("a", HexMin))

\* C7: for a brand other than esb and an info record with a base key: with no
\* base reference the record is accepted and not written; with a base
\* reference classified to key K and value V, nothing is written when K
\* already has value V; when K has another value, or no value, the call fails
\* without writing in check mode and writes exactly K=V otherwise.
C7_ExistingRecordTable ==
  (/\ Called("ensure_esb_info") /\ brand_name # s_esb
   /\ has_esb_base(load_esb_info(pre.info))) =>
    IF NoBaseArg THEN Returned("ensure_esb_info") /\ InfoUntouched
    ELSE
      LET kv == normalize_esb_base(args.esb_base.val)
          existing == DictGet(load_esb_info(pre.info), kv.key)
      IN
      IF existing # <<>> /\ existing = kv.value
        THEN Returned("ensure_esb_info") /\ InfoUntouched
      ELSE IF args.check
        THEN Failed("ensure_esb_info") /\ InfoUntouched
      ELSE /\ Returned("ensure_esb_info")
           /\ writes.info
           /\ HoldsExactly(infoFile, kv.key, kv.value)

\* a commit record was overwritten with another commit
C7_Witness ==
  /\ Returned("ensure_esb_info") /\ brand_name # s_esb /\ ~args.check
  /\ DictGet(load_esb_info(pre.info), k_ESB_BASE_COMMIT) = Rep("a", HexMin)
  /\ args.esb_base = Arg(Rep("A", HexMax))
  /\ HoldsExactly(infoFile, k_ESB_BASE_COMMIT, Rep("A", HexMax))

\* C8: validate_tool_commit, git rev-parse having given a commit or not been
\* needed: without skip it returns exactly when the current commit equals the
\* lock record's tool.commit; with skip it never fails, and warns when the
\* commits differ.
C8_SkipNeverAborts ==
  (Called("validate_tool_commit") /\ toolHead.st # "raise") =>
    LET same == /\ toolHead.st = "ok"
                /\ str_strip(toolHead.val) = DictGet(lock_data, k_tool_commit)
    IN
    IF args.force
      THEN /\ Returned("validate_tool_commit")
           /\ same \/ "tool repo commit mismatch" \in warnings
      ELSE Returned("validate_tool_commit") <=> same

\* C9: when main returns, the exit code is 1 exactly when a stage raised a
\* BrandingError or the run is a check run with a non-empty mismatch list, and
\* 0 in every other run.
C9_ExitCode ==
  pc = "done" =>
    /\ exit_code \in {0, 1}
    /\ exit_code = 1 <=> (failed_at # "" \/ (args.check /\ mismatches # <<>>))

\* a check run in which no stage raised exits 1 on drift
C9_Witness ==
  /\ pc = "done" /\ exit_code = 1 /\ failed_at = "" /\ args.check
  /\ mismatches # <<>>

\* C10 as stated: a second run with the same arguments on the files a
\* successful first run left changes no file and writes nothing.
C10_SecondRunWritesNothing ==
  (pc = "done" /\ run >= 2 /\ prev.exit_code = 0 /\ prev.check = args.check) =>
    (Snapshot = pre /\ writes = NoWrites)

\* C10 as amended: a second run with the same arguments on the files a
\* successful first run left leaves every persisted file byte-identical; it
\* does not skip unchanged files: in write mode it writes the env file and
\* every template target again.
C10_SecondRunSameBytes ==
  (pc = "done" /\ run >= 2 /\ prev.exit_code = 0 /\ prev.check = args.check) =>
    /\ Snapshot = pre
    /\ ~args.check => (writes.env /\ writes.targets = AllTargets)

\* a second write run after a successful write run for a brand with an info
\* record
C10_Witness ==
  /\ pc = "done" /\ run >= 2 /\ prev.exit_code = 0 /\ ~prev.check
  /\ ~args.check /\ exit_code = 0 /\ brand_name # s_esb /\ infoFile.exists

\* the target of the i-th declared spec is absent, or differs from what its
\* template renders to, in the tree the run found
Drifted(i) ==
  LET file == FileAt(pre.targets, TEMPLATES[i].target)
      text == render_string(FileAt(templates, TEMPLATES[i].template).text,
                            build_context(branding.val))
  IN ~file.exists \/ file.text # text.val

\* the targets, in declaration order from the i-th spec on, that have drifted
RECURSIVE DriftedFrom(_)
DriftedFrom(i) ==
  IF i > Len(TEMPLATES) THEN <<>>
  ELSE (IF Drifted(i) THEN <<TEMPLATES[i].target>> ELSE <<>>)
       \o DriftedFrom(i + 1)

\* C12: in check mode, when every template renders, render_templates returns
\* exactly the targets of the eight declared specs, in declaration order,
\* whose file is absent or differs from the rendered text, and it creates no
\* target.
C12_CheckListsEveryDrift ==
  (Returned("render_templates") /\ args.check) =>
    /\ Len(TEMPLATES) = 8
    /\ mismatches = DriftedFrom(1)
    /\ targets = pre.targets

\* a check run that found the first target up to date, the second stale and
\* the six others missing
C12_Witness ==
  /\ Returned("render_templates") /\ args.check
  /\ ~Drifted(1)
  /\ FileAt(pre.targets, TEMPLATES[2].target).exists /\ Drifted(2)
  /\ Len(mismatches) = 7
  /\ \A i \in 3..8 : ~FileAt(targets, TEMPLATES[i].target).exists

\* C15: after a write run that exited 0, a check run with the same arguments
\* on the files that run left reports no mismatch and exits 0.
C15_WriteThenCheckPasses ==
  (pc = "done" /\ run >= 2 /\ ~prev.check /\ prev.exit_code = 0 /\ args.check)
    => (exit_code = 0 /\ mismatches = <<>>)

(***************************************************************************)
(* derive_branding on its own: every brand string over a small alphabet.   *)
(***************************************************************************)
\* the longest brand string drawn from the alphabet
MaxBrandLen == 3

\* a lower-case letter, an upper-case letter, a digit, the two separators the
\* normalisations produce, and a blank
BrandAlphabet == {"a", "Z", "9", "-", "_", " "}

DeriveBrands ==
  UNION {[1..n -> BrandAlphabet] : n \in 0..MaxBrandLen}
    \cup {s_esb, <<" ","A","c","m","e"," ">>}

\* no generator run is in progress and the root holds no generated file
GeneratorIdle ==
  /\ configFile = NoFile
  /\ infoFile = NoFile
  /\ envFile = NoFile
  /\ targets = EmptyDict
  /\ toolHead = NoneVal
  /\ root = "unresolved"
  /\ environ = EmptyDict
  /\ args = [brand |-> NoArg, esb_base |-> NoArg, check |-> FALSE,
             force |-> FALSE]
  /\ run = 0
  /\ lock_data = EmptyDict
  /\ mismatches = <<>>
  /\ failed_at = ""
  /\ error = ""
  /\ exit_code = -1
  /\ warnings = {}
  /\ writes = NoWrites
  /\ pre = Snapshot
  /\ prev = [check |-> FALSE, exit_code |-> -1]

\* main is about to call derive_branding(brand_name)
DeriveInit ==
  /\ lockFile = NoFile
  /\ templates = EmptyDict
  /\ GeneratorIdle
  /\ brand_name \in DeriveBrands
  /\ branding = NoneVal
  /\ pc = "derive_branding"
  /\ UpdaterIdle
  /\ rendered_text = NoneVal

DeriveNext == DeriveBranding

SpecDerive == DeriveInit /\ [][DeriveNext]_vars

ALNUM == LowerSet \cup UpperSet \cup DIGITS

\* the brand holds no letter or digit, or its first letter or digit is a digit
NoLeadingLetter(brand) ==
  \/ \A i \in 1..Len(brand) : brand[i] \notin ALNUM
  \/ \E i \in 1..Len(brand) :
       /\ brand[i] \in DIGITS
       /\ \A j \in 1..(i - 1) : brand[j] \notin ALNUM

\* value matches ^[first][rest]*$
Matches(value, first, rest) ==
  /\ Len(value) >= 1
  /\ value[1] \in first
  /\ \A i \in 2..Len(value) : value[i] \in rest

\* C14: derive_branding fails exactly when the trimmed brand is empty, no
\* slug can be derived (the brand holds no letter or digit) or the env prefix
\* would be empty or start with a digit; when it returns, slug and cli_name
\* match [a-z0-9][a-z0-9-]*, env_prefix matches [A-Z][A-Z0-9_]*, label_prefix
\* is com.<slug> and no field is empty; derive('esb') gives esb, ESB, esb0.
C14_DeriveBranding ==
  pc # "derive_branding" =>
    /\ Failed("derive_branding") <=>
         (str_strip(brand_name) = <<>> \/ NoLeadingLetter(brand_name))
    /\ ~Failed("derive_branding") =>
         LET b == branding.val IN
         /\ branding.st = "ok"
         /\ Matches(b.slug, LowerSet \cup DIGITS, LowerSet \cup DIGITS \cup {"-"})
         /\ b.cli_name = b.slug
         /\ Matches(b.env_prefix, UpperSet, UpperSet \cup DIGITS \cup {"_"})
         /\ b.label_prefix = <<"c","o","m",".">> \o b.slug
         /\ \A f \in DOMAIN b.paths : b.paths[f] # <<>>
         /\ \A f \in DOMAIN b.root_ca : b.root_ca[f] # <<>>
         /\ \A f \in DOMAIN b.runtime : b.runtime[f] # <<>>
         /\ brand_name = s_esb =>
              /\ b.slug = s_esb
              /\ b.env_prefix = <<"E","S","B">>
              /\ b.runtime.cni_bridge = <<"e","s","b","0">>

\* a brand with a separator between a letter and an upper-case letter was
\* derived
C14_Witness ==
  /\ pc = "write_branding_env"
  /\ brand_name = <<"a","_","Z">>
  /\ branding.val.slug = <<"a","-","z">>
  /\ branding.val.env_prefix = <<"A","_","Z">>

(***************************************************************************)
(* render_string on its own: templates built from literal characters and   *)
(* placeholder markers, and a few texts that only look like markers.       *)
(***************************************************************************)
\* the largest number of segments (literal characters, markers) of a template
MaxSegments == 3

Literal(c) == [marker |-> FALSE, name |-> <<>>, text |-> <<c>>]
Marker(name, text) == [marker |-> TRUE, name |-> name, text |-> text]

\* two literal characters, two markers whose key build_context defines (one
\* written with blanks inside the braces), one marker whose key it lacks
Segments ==
  {Literal("x"), Literal(" "),
   Marker(<<"S","L","U","G">>, <<"{","{","S","L","U","G","}","}">>),
   Marker(<<"E","N","V","_","P","R","E","F","I","X">>,
          <<"{","{"," ","E","N","V","_","P","R","E","F","I","X"," ","}","}">>),
   Marker(<<"M","I","S","S","I","N","G">>,
          <<"{","{","M","I","S","S","I","N","G","}","}">>)}

SegmentSeqs == UNION {[1..n -> Segments] : n \in 0..MaxSegments}

RECURSIVE Flatten(_)
Flatten(segs) ==
  IF Len(segs) = 0 THEN <<>> ELSE Head(segs).text \o Flatten(Tail(segs))

\* a marker inside a marker, a lower-case name, an unterminated marker,
\* single braces, an empty name, a marker inside single braces
OddTexts ==
  {<<"{","{"," ","{","{","E","N","V","_","P","R","E","F","I","X","}","}"," ","}","}">>,
   <<"{","{","s","l","u","g","}","}">>,
   <<"{","{","S","L","U","G","}">>,
   <<"{"," ","{","S","L","U","G","}"," ","}">>,
   <<"{","{","}","}">>,
   <<"{","{","{","S","L","U","G","}","}","}">>}

RenderTexts == {Flatten(segs) : segs \in SegmentSeqs} \cup OddTexts

\* render_templates is about to render the first declared template for the
\* brand esb
RenderInit ==
  /\ lockFile = NoFile
  /\ \E text \in RenderTexts :
       templates = (TEMPLATES[1].template :> File(text))
  /\ GeneratorIdle
  /\ brand_name = s_esb
  /\ branding = derive_branding(s_esb)
  /\ pc = "render_templates"
  /\ UpdaterIdle
  /\ rendered_text = NoneVal

\* rendered = render_string(template, context)
RenderString ==
  /\ pc = "render_templates"
  /\ rendered_text' =
       render_string(FileAt(templates, TEMPLATES[1].template).text,
                     build_context(branding.val))
  /\ pc' = "rendered"
  /\ UNCHANGED <<disk, toolHead, root, environ, args, run, locals, failed_at,
                 error, exit_code, warnings, writes, pre, prev, updater>>

RenderNext == RenderString

SpecRender == RenderInit /\ [][RenderNext]_vars

\* the text holds a placeholder marker: {{, blanks, a name of [A-Z0-9_], blanks, }}
HasMarker(t) ==
  \E a \in 1..Len(t) :
    /\ a + 1 <= Len(t) /\ t[a] = "{" /\ t[a + 1] = "{"
    /\ \E b \in (a + 2)..Len(t) :
         /\ \A i \in (a + 2)..(b - 1) : t[i] \in WHITESPACE
         /\ \E c \in (b + 1)..Len(t) :
              /\ \A i \in b..(c - 1) : t[i] \in PLACEHOLDER_NAME
              /\ \E d \in c..(Len(t) - 1) :
                   /\ \A i \in c..(d - 1) : t[i] \in WHITESPACE
                   /\ t[d] = "}" /\ t[d + 1] = "}"

\* some marker of the template names a key the context lacks
UnknownKey(segs, context) ==
  \E i \in 1..Len(segs) : segs[i].marker /\ segs[i].name \notin DOMAIN context

\* the template with every marker replaced by its value
RECURSIVE Replaced(_, _)
Replaced(segs, context) ==
  IF Len(segs) = 0 THEN <<>>
  ELSE (IF Head(segs).marker THEN context[Head(segs).name] ELSE Head(segs).text)
       \o Replaced(Tail(segs), context)

\* C13: render_string replaces every marker {{ NAME }} by context[NAME] and
\* leaves the text outside markers as it is; it fails with the unknown-key
\* error when a marker's NAME is not in the context; whatever it returns
\* holds no marker, and a text without markers is returned unchanged.
C13_RenderString ==
  pc = "rendered" =>
    LET text == FileAt(templates, TEMPLATES[1].template).text
        context == build_context(branding.val)
    IN
    /\ rendered_text.st \in {"ok", "raise"}
    /\ rendered_text.st = "ok" => ~HasMarker(rendered_text.val)
    /\ ~HasMarker(text) => rendered_text = Ok(text)
    /\ \A segs \in SegmentSeqs :
         Flatten(segs) = text =>
           IF UnknownKey(segs, context)
             THEN rendered_text = Raise("unknown template key")
             ELSE rendered_text = Ok(Replaced(segs, context))

\* two markers around a literal character were replaced
C13_Witness ==
  /\ pc = "rendered"
  /\ FileAt(templates, TEMPLATES[1].template).text =
       <<"{","{","S","L","U","G","}","}","x",
         "{","{"," ","E","N","V","_","P","R","E","F","I","X"," ","}","}">>
  /\ rendered_text = Ok(<<"e","s","b","x","E","S","B">>)

(***************************************************************************)
(* The lock updater, tools/branding/update_lock.py.  An optional string    *)
(* (str | None) is a record [given, val], None being NoArg.                *)
(***************************************************************************)
LOCK_SCHEMA_VERSION == 1

\* str(n) for a one-digit n
int_str(n) == <<(<<"0","1","2","3","4","5","6","7","8","9">>)[n + 1]>>

\* x or None, <<>> standing for None
or_none(x) == IF x.given THEN x.val ELSE <<>>

\* p in s, for a string p
str_contains_str(s, p) ==
  \E i \in 1..(Len(s) - Len(p) + 1) : SubSeq(s, i, i + Len(p) - 1) = p

\* update_lock._strip_quotes
update_lock_strip_quotes(value) ==
  IF Len(value) >= 2 /\ value[1] = value[Len(value)] /\ value[1] \in QUOTES
    THEN SubSeq(value, 2, Len(value) - 1)
    ELSE value

\* the loop of _read_lock (stack and prefixes always have the same length;
\* prefixes stands for both)
RECURSIVE read_lock_lines(_, _, _)
read_lock_lines(lines, data, prefixes) ==
  IF lines = <<>> THEN data
  ELSE
    LET line == Head(lines)
        stripped == str_strip(line)
    IN
    IF stripped = <<>> \/ str_startswith(stripped, <<"#">>)
      THEN read_lock_lines(Tail(lines), data, prefixes)
    ELSE
      LET indent == Len(line) - Len(str_lstrip_char(line, " "))
          popped == lock_pop(prefixes, indent)
      IN
      IF ~str_contains(stripped, ":")
        THEN read_lock_lines(Tail(lines), data, popped)
      ELSE
        LET key == str_strip(str_split_head(stripped, ":"))
            raw_value == str_strip(str_split_tail(stripped, ":"))
            prefix == IF popped # <<>> THEN popped[Len(popped)] ELSE <<>>
        IN
        IF raw_value = <<>>
          THEN read_lock_lines(Tail(lines), data,
                               Append(popped, prefix \o key \o <<".">>))
          ELSE read_lock_lines(
                 Tail(lines),
                 DictSet(data, prefix \o key, update_lock_strip_quotes(raw_value)),
                 popped)

_read_lock(file) ==
  IF ~file.exists THEN NoneVal
  ELSE Ok(read_lock_lines(str_splitlines(file.text), EmptyDict, <<>>))

_normalize_ref(value) ==
  IF ~value.given \/ value.val = <<>> THEN NoArg
  ELSE IF is_hex_commit(str_strip(value.val)) THEN NoArg
  ELSE Arg(str_strip(value.val))

k_schema_version == <<"s","c","h","e","m","a","_","v","e","r","s","i","o","n">>
k_tool_ref == <<"t","o","o","l",".","r","e","f">>
k_source_esb_repo == <<"s","o","u","r","c","e",".","e","s","b","_","r","e","p","o">>
k_source_esb_commit == <<"s","o","u","r","c","e",".","e","s","b","_","c","o","m","m","i","t">>
k_source_esb_ref == <<"s","o","u","r","c","e",".","e","s","b","_","r","e","f">>
k_parameters_brand == <<"p","a","r","a","m","e","t","e","r","s",".","b","r","a","n","d">>

\* the keys _equivalent_lock compares, in its order
LOCK_KEYS ==
  <<k_schema_version, k_tool_commit, k_tool_ref, k_source_esb_repo,
    k_source_esb_commit, k_source_esb_ref, k_parameters_brand>>

\* the loop of _equivalent_lock from the i-th key on
RECURSIVE equivalent_from(_, _, _)
equivalent_from(i, existing_lock, new_lock) ==
  IF i > Len(LOCK_KEYS) THEN TRUE
  ELSE IF DictGet(existing_lock, LOCK_KEYS[i]) # or_none(new_lock[LOCK_KEYS[i]])
    THEN FALSE
  ELSE equivalent_from(i + 1, existing_lock, new_lock)

_equivalent_lock(existing_lock, new_lock) ==
  equivalent_from(1, existing_lock, new_lock)

\* _now_iso: the clock, in seconds since 1970, as ISO-8601 UTC with a Z
_now_iso(seconds) ==
  <<"1","9","7","0","-","0","1","-","0","1","T","0","0",":","0","0",":","0">> \o int_str(seconds) \o <<"Z">>

quoted(v) == <<"\"">> \o v \o <<"\"">>

_render_lock(locked_at, tool_commit, tool_ref, esb_repo, esb_commit, esb_ref, brand) ==
  str_join_lines(
    << <<"s","c","h","e","m","a","_","v","e","r","s","i","o","n",":"," ">> \o int_str(LOCK_SCHEMA_VERSION),
       <<"l","o","c","k","e","d","_","a","t",":"," ">> \o quoted(locked_at),
       <<>>,
       <<"t","o","o","l",":">>,
       <<" "," ","c","o","m","m","i","t",":"," ">> \o quoted(tool_commit) >>
    \o (IF or_none(tool_ref) # <<>>
          THEN << <<" "," ","r","e","f",":"," ">> \o quoted(tool_ref.val) >>
          ELSE <<>>)
    \o << <<>>,
          <<"s","o","u","r","c","e",":">>,
          <<" "," ","e","s","b","_","r","e","p","o",":"," ">> \o quoted(esb_repo),
          <<" "," ","e","s","b","_","c","o","m","m","i","t",":"," ">> \o quoted(esb_commit) >>
    \o (IF or_none(esb_ref) # <<>>
          THEN << <<" "," ","e","s","b","_","r","e","f",":"," ">> \o quoted(esb_ref.val) >>
          ELSE <<>>)
    \o << <<>>,
          <<"p","a","r","a","m","e","t","e","r","s",":">>,
          <<" "," ","b","r","a","n","d",":"," ">> \o quoted(brand),
          <<>> >>)

\* main, lines 25-29: the repository URL, or LockError
resolve_esb_repo(a) ==
  LET esb_repo == IF or_none(a.esb_repo) # <<>> THEN a.esb_repo.val
                  ELSE or_none(a.remote)
  IN
  IF esb_repo = <<>> THEN Raise("esb_repo is required (pass --esb-repo)")
  ELSE IF ~str_contains_str(esb_repo, <<":","/","/">>) /\ str_contains(esb_repo, "/")
    THEN Ok(<<"h","t","t","p","s",":","/","/","g","i","t","h","u","b",".","c","o","m","/">> \o esb_repo \o <<".","g","i","t">>)
  ELSE Ok(esb_repo)

\* main, lines 36-44: new_data
make_new_data(a, esb_repo) ==
  (k_schema_version :> Arg(int_str(LOCK_SCHEMA_VERSION))) @@
  (k_tool_commit :> Arg(a.tool_commit)) @@
  (k_tool_ref :> a.tool_ref) @@
  (k_source_esb_repo :> Arg(esb_repo)) @@
  (k_source_esb_commit :> Arg(a.esb_commit)) @@
  (k_source_esb_ref :> _normalize_ref(a.esb_ref)) @@
  (k_parameters_brand :> Arg(a.brand))

(***************************************************************************)
(* Runs of the lock updater.                                               *)
(***************************************************************************)
\* the latest second the wall clock reaches
MaxClock == 2

\* --esb-repo and `git remote get-url origin`: neither; the remote only; an
\* owner/repo argument; a URL argument with a trailing blank
UpdRepoInputs ==
  {[esb_repo |-> NoArg, remote |-> NoArg],
   [esb_repo |-> NoArg, remote |-> Arg(<<"u",":","/","/","g">>)],
   [esb_repo |-> Arg(<<"o","/","r">>), remote |-> NoArg],
   [esb_repo |-> Arg(<<"u",":","/","/","r"," ">>), remote |-> Arg(<<"u",":","/","/","g">>)]}

\* --esb-ref: absent, empty, blank, a tag to be trimmed, a commit
UpdRefArgs ==
  {NoArg, Arg(<<>>), Arg(<<" "," ">>), Arg(<<" ","v","1"," ">>),
   Arg(Rep("a", HexMin))}

\* --brand: plain, with blanks around it, empty, spanning two lines
UpdBrands == {<<"a","c","m","e">>, <<" ","x"," ">>, <<>>, <<"a","\n","b">>}

\* `git describe --tags --exact-match` in the tool repository
UpdToolRefs == {NoArg, Arg(<<"v","1">>)}

UpdArgSets ==
  {[esb_repo |-> r.esb_repo, esb_ref |-> e, brand |-> b, remote |-> r.remote,
    tool_commit |-> <<"c","1">>, tool_ref |-> t, esb_commit |-> <<"e","1">>] :
     r \in UpdRepoInputs, e \in UpdRefArgs, b \in UpdBrands, t \in UpdToolRefs}

\* branding.lock before the first run: absent; comments only; the lock of
\* LockFiles that pins c1 and nothing else; a hand-written lock with unquoted
\* values and an empty tool.ref
UpdLockFiles ==
  {NoFile,
   File(<<"#"," ","l","o","c","k","\n">>),
   File(<<"t","o","o","l",":","\n"," "," ","c","o","m","m","i","t",":"," ","\"","c","1","\"","\n">>),
   File(<<"s","c","h","e","m","a","_","v","e","r","s","i","o","n",":"," ","1","\n","t","o","o","l",":","\n"," "," ","c","o","m","m","i","t",":"," ","c","1","\n"," "," ","r","e","f",":"," ","'","'","\n","s","o","u","r","c","e",":","\n"," "," ","e","s","b","_","r","e","p","o",":"," ","u",":","/","/","g","\n"," "," ","e","s","b","_","c","o","m","m","i","t",":"," ","e","1","\n","p","a","r","a","m","e","t","e","r","s",":","\n"," "," ","b","r","a","n","d",":"," ","a","c","m","e","\n">>)}

\* the generator's state but branding.lock
generator == <<templates, configFile, infoFile, envFile, targets, toolHead,
               root, environ, args, pc, run, lock_data, brand_name, branding,
               mismatches, failed_at, error, exit_code, warnings, writes, pre,
               prev, rendered_text>>

\* the generator is not running
GeneratorStopped ==
  /\ templates = EmptyDict
  /\ GeneratorIdle
  /\ brand_name = <<>>
  /\ branding = NoneVal
  /\ pc = "idle"
  /\ rendered_text = NoneVal

LockInit ==
  /\ lockFile \in UpdLockFiles
  /\ GeneratorStopped
  /\ UpdaterIdle

\* a run begins: main has parsed its arguments, asked git, and built new_data
\* (lines 21-44), or raised LockError for want of a repository
UpdBegin(a) ==
  LET esb_repo == resolve_esb_repo(a) IN
  /\ upd_args' = a
  /\ upd_run' = upd_run + 1
  /\ prev_wrote' = lock_wrote
  /\ lock_wrote' = FALSE
  /\ lock_pre' = lockFile
  /\ upd_existing' = NoneVal
  /\ IF esb_repo.st = "raise"
       THEN /\ upd_pc' = "raised"
            /\ upd_new_data' = EmptyDict
       ELSE /\ upd_pc' = "read_lock"
            /\ upd_new_data' = make_new_data(a, esb_repo.val)
  /\ UNCHANGED <<lockFile, clock, generator>>

\* first run: any command line
UpdStart ==
  /\ upd_pc = "idle"
  /\ \E a \in UpdArgSets : UpdBegin(a)

\* a following run with the same commits, tag, repository, ref and brand
UpdRerun ==
  /\ upd_pc = "done"
  /\ upd_run < MaxRuns
  /\ UpdBegin(upd_args)

\* existing = _read_lock(lock_path)
UpdReadLock ==
  /\ upd_pc = "read_lock"
  /\ upd_existing' = _read_lock(lockFile)
  /\ upd_pc' = "compare"
  /\ UNCHANGED <<lockFile, clock, generator, upd_args, upd_run, upd_new_data,
                 lock_pre, lock_wrote, prev_wrote>>

\* lines 48-63: return 0 when the record on disk is equivalent, else render
\* the lock with the current time and write it
UpdCompare ==
  /\ upd_pc = "compare"
  /\ IF /\ upd_existing.st = "ok"
        /\ ~DictEmpty(upd_existing.val)
        /\ _equivalent_lock(upd_existing.val, upd_new_data)
       THEN UNCHANGED <<lockFile, lock_wrote>>
       ELSE /\ lockFile' =
                 File(_render_lock(_now_iso(clock),
                                   upd_args.tool_commit,
                                   upd_args.tool_ref,
                                   upd_new_data[k_source_esb_repo].val,
                                   upd_args.esb_commit,
                                   upd_new_data[k_source_esb_ref],
                                   upd_args.brand))
            /\ lock_wrote' = TRUE
  /\ upd_pc' = "done"
  /\ UNCHANGED <<clock, generator, upd_args, upd_run, upd_existing,
                 upd_new_data, lock_pre, prev_wrote>>

\* time passes
Tick ==
  /\ clock < MaxClock
  /\ clock' = clock + 1
  /\ UNCHANGED <<lockFile, generator, upd_args, upd_pc, upd_run, upd_existing,
                 upd_new_data, lock_pre, lock_wrote, prev_wrote>>

LockNext ==
  \/ UpdStart
  \/ UpdRerun
  \/ UpdReadLock
  \/ UpdCompare
  \/ Tick

SpecLock == LockInit /\ [][LockNext]_vars

\* the seven keys compare equal once absent and empty are both no value
SameSevenKeys(on_disk, fresh) ==
  \A k \in {k_schema_version, k_tool_commit, k_tool_ref, k_source_esb_repo,
             k_source_esb_commit, k_source_esb_ref, k_parameters_brand} :
    (IF k \in DOMAIN on_disk THEN on_disk[k] ELSE <<>>)
      = (IF fresh[k].given THEN fresh[k].val ELSE <<>>)

\* C11: no timestamp churn.  A run that finds the record on disk equivalent
\* to the freshly computed one writes nothing; and a run that follows a run
\* that wrote the lock, with the same arguments and commits, leaves the lock
\* file, locked_at included, as it found it.
C11_NoTimestampChurn ==
  upd_pc = "done" =>
    /\ (lock_pre.exists /\ SameSevenKeys(_read_lock(lock_pre).val, upd_new_data))
         => (~lock_wrote /\ lockFile = lock_pre)
    /\ (upd_run >= 2 /\ prev_wrote) => (~lock_wrote /\ lockFile = lock_pre)

(***************************************************************************)
(* The two lock parsers on the same file: the generator's load_lock_data   *)
(* and the updater's _read_lock.                                           *)
(***************************************************************************)
\* every lock the updater writes for the command lines of UpdArgSets
RenderedLocks ==
  {File(_render_lock(_now_iso(0), a.tool_commit, a.tool_ref,
                     resolve_esb_repo(a).val, a.esb_commit,
                     _normalize_ref(a.esb_ref), a.brand)) :
     a \in {x \in UpdArgSets : resolve_esb_repo(x).st = "ok"}}

\* hand-written locks: single quotes, a comment and a key without a colon
\* between nested keys, a section inside a section, an unmatched quote
OddLocks ==
  {File(<<"t","o","o","l",":","\n"," "," ","c","o","m","m","i","t",":"," ","'","c","1","'","\n">>),
   File(<<"t","o","o","l",":","\n"," "," ","#"," ","p","i","n","n","e","d","\n"," "," ","n","o","t","e","\n"," "," ","c","o","m","m","i","t",":"," ","c","1","\n","s","o","u","r","c","e",":","\n"," "," ","e","s","b","_","r","e","f",":"," ","v","1","\n">>),
   File(<<"a",":","\n"," "," ","b",":","\n"," "," "," "," ","c",":"," ","1","\n"," "," ","d",":"," ","2","\n","e",":"," ","3","\n">>),
   File(<<"t","o","o","l",":","\n"," "," ","c","o","m","m","i","t",":"," ","\"","c","1","\n">>)}

ParserLockFiles == RenderedLocks \cup UpdLockFiles \cup LockFiles \cup OddLocks

\* the generator is about to call load_lock_data and the updater _read_lock,
\* on the same branding.lock
ParsersInit ==
  /\ lockFile \in ParserLockFiles
  /\ templates = EmptyDict
  /\ GeneratorIdle
  /\ brand_name = <<>>
  /\ branding = NoneVal
  /\ pc = "load_lock_data"
  /\ rendered_text = NoneVal
  /\ upd_args = NoUpdArgs
  /\ upd_pc = "read_lock"
  /\ upd_run = 0
  /\ upd_existing = NoneVal
  /\ upd_new_data = EmptyDict
  /\ clock = 0
  /\ lock_pre = lockFile
  /\ lock_wrote = FALSE
  /\ prev_wrote = FALSE

ParsersNext ==
  \/ LoadLock
  \/ UpdReadLock

SpecParsers == ParsersInit /\ [][ParsersNext]_vars

\* C16: on every lock file the generator's load_lock_data and the updater's
\* _read_lock return the same mapping from dotted key to value.
C16_ParsersAgree ==
  (pc # "load_lock_data" /\ upd_pc = "compare" /\ lockFile.exists) =>
    (upd_existing.st = "ok" /\ lock_data = upd_existing.val)

====
